---- MODULE Spec2Model ----
\* State-classification statistics of the DNAMIC repository:
\*   repository/reusable/stats.py          (Jeffreys / pooling functions)
\*   repository/reusable/make_shot_scan.py (ShotCarrier: shots -> p +/- err)
\*
\* Floating-point numbers are modelled as exact rationals <<num, den>> in
\* lowest terms with den > 0; <<0, 0>> is NaN.  scipy's betaincinv is an
\* uninterpreted function: its results are terms that record its arguments.
EXTENDS Integers, Sequences, FiniteSets, TLC

VARIABLES
    datasets,          \* the dataset store: a function from the keys that are set
    channels,          \* names of the result channels get_default_analyses declared
    shape,             \* <<groups, rois>> of the count array one shot pushes
    counts,            \* result_values[counts handle]: one G x R table per shot
    pc,                \* "idle", or how _analyse_shots_to_p ended
    n,                 \* local n of the last _analyse_shots_to_p
    y,                 \* local y of the last _analyse_shots_to_p
    analysis_results,  \* channel name -> sequence of pushed values
    arg_y,             \* stats call: y (successes per group)
    arg_n,             \* stats call: n (trials per group)
    arg_w,             \* stats call: <<>> for w=None, <<w>> for a weight list
    arg_prior,         \* stats call: <<>> for the default prior, <<(a0, b0)>> if given
    pooled_ret,        \* log of the pooled_posterior_beta calls: groups passed, value
    avg_ret,           \* drift_aware -> return value of moment_matched_beta_for_average
    arg_level,         \* stats call: <<>> for the default level, <<level>> if given
    quant_ret,         \* <<>>, or the call of a quantile function and what it returned
    prev,              \* <<>>, or threshold, n and y of the analysis before a retune
    chunk,             \* <<>>, or the ShotChunk fragment: parameter, scan, last batch
    urukul,            \* <<>>, or the UrukulToneRAM experiment and its DDS channel
    applet             \* <<>>, or the ImageWithROIs widget

vars == <<datasets, channels, shape, counts, pc, n, y, analysis_results,
          arg_y, arg_n, arg_w, arg_prior, pooled_ret, avg_ret,
          arg_level, quant_ret, prev, chunk, urukul, applet>>

analysis_vars == <<datasets, channels, shape, counts, pc, n, y, analysis_results, prev>>

quantile_vars == <<arg_level, quant_ret>>

stats_vars == <<arg_y, arg_n, arg_w, arg_prior, pooled_ret, avg_ret, arg_level, quant_ret>>

other_vars == <<chunk, urukul, applet>>

-----------------------------------------------------------------------------
\* Bounds of the model.

\* most shots in one batch
MaxShots == 2

\* most groups in a stats call
MaxGroups == 2

\* most trials per group in a stats call
MaxTrials == 2

\* most shots in a batch that is analysed next to a second batch
MaxPairShots == 1

\* rows and columns of the camera image
ImageSide == 2

\* largest value of shots_per_chunk
MaxChunkShots == 3

\* most pixels of an image shown in the applet
MaxPixels == 2

\* most boxes of an ROI list shown in the applet
MaxBoxes == 2

-----------------------------------------------------------------------------
\* Exact rational arithmetic standing for float arithmetic.

Abs(i) == IF i < 0 THEN -i ELSE i

RECURSIVE GCD(_, _)
GCD(a, b) == IF b = 0 THEN a ELSE GCD(b, a % b)

NaN == <<0, 0>>

IsNaN(x) == x[2] = 0

Rat(num, den) ==
    IF den = 0 THEN NaN
    ELSE LET g == GCD(Abs(num), Abs(den))
             s == IF den < 0 THEN -1 ELSE 1
         IN  <<(s * num) \div g, (s * den) \div g>>

FromInt(i) == <<i, 1>>

Zero == <<0, 1>>

One == <<1, 1>>

RAdd(p, q) ==
    IF IsNaN(p) \/ IsNaN(q) THEN NaN
    ELSE LET g == GCD(p[2], q[2])
         IN  Rat(p[1] * (q[2] \div g) + q[1] * (p[2] \div g), (p[2] \div g) * q[2])

RNeg(p) == IF IsNaN(p) THEN NaN ELSE <<-p[1], p[2]>>

RSub(p, q) == RAdd(p, RNeg(q))

RMul(p, q) ==
    IF IsNaN(p) \/ IsNaN(q) THEN NaN
    ELSE LET g1 == GCD(Abs(p[1]), q[2])
             g2 == GCD(Abs(q[1]), p[2])
         IN  Rat((p[1] \div g1) * (q[1] \div g2), (p[2] \div g2) * (q[2] \div g1))

\* x / 0 is NaN here; numpy gives NaN for 0/0, the only division by zero the
\* modelled inputs reach (weights that are all zero).
RDiv(p, q) ==
    IF IsNaN(p) \/ IsNaN(q) \/ q[1] = 0 THEN NaN
    ELSE RMul(p, Rat(q[2], q[1]))

\* comparisons with NaN are false, as in IEEE 754
RLt(p, q) == ~IsNaN(p) /\ ~IsNaN(q) /\ RSub(p, q)[1] < 0

RLe(p, q) == ~IsNaN(p) /\ ~IsNaN(q) /\ RSub(p, q)[1] <= 0

RECURSIVE RSum(_)
RSum(s) == IF Len(s) = 0 THEN Zero ELSE RAdd(Head(s), RSum(Tail(s)))

RECURSIVE ISum(_)
ISum(s) == IF Len(s) = 0 THEN 0 ELSE Head(s) + ISum(Tail(s))

-----------------------------------------------------------------------------
\* repository/reusable/stats.py

\* the default prior=(0.5, 0.5) of both pooling functions
JeffreysPrior == <<Rat(1, 2), Rat(1, 2)>>

\* A value np.clip moved onto a guard rail (1e-12, 1e-18 away from the end of
\* the range): not representable as a model rational, so it is a tag.
Clipped == <<0, -1>>

IsClipped(x) == x = Clipped

\* np.clip(x, eps, hi - eps) for eps in {1e-12, 1e-18}, with hi = One for m.
\* Every positive rational of the bounded model is far above eps, so the clip
\* is the identity exactly on the open interval (0, hi).
Clip(x, hi) ==
    IF IsNaN(x) \/ IsNaN(hi) THEN NaN
    ELSE IF IsClipped(hi) THEN Clipped
    ELSE IF RLt(Zero, x) /\ RLt(x, hi) THEN x
    ELSE Clipped

\* arithmetic that passes a guard-rail tag through
Guarded(x, r) == IF IsClipped(x) THEN Clipped ELSE r

\* prior=(0.5, 0.5) unless given: <<>> is the omitted argument, <<p>> a given one
PriorUsed(prior) == IF prior = <<>> THEN JeffreysPrior ELSE prior[1]

\* An array: the function evaluated once into a tuple of its elements.
Array(f) == f \o <<>>

\* variant: only the first group's successes are counted
PooledSuccessesOfFirstGroup(yy) == yy[1]

\* np.sum(y)
PooledSuccesses(yy) == ISum(yy)

\* variant: the failures are not reduced by the successes
PooledTrials(yy, nn) == ISum(nn)

\* np.sum(n - y)
PooledFailures(yy, nn) == ISum(Array([g \in 1..Len(yy) |-> nn[g] - yy[g]]))

\* pooled_posterior_beta(y, n, prior): (a0 + sum(y), b0 + sum(n - y))
pooled_posterior_beta(yy, nn, prior) ==
    <<RAdd(PriorUsed(prior)[1], FromInt(PooledSuccesses(yy))),
      RAdd(PriorUsed(prior)[2], FromInt(PooledFailures(yy, nn)))>>

\* variant: np.ones_like(mu), not divided by len(mu)
OnesWeights(G) == Array([g \in 1..G |-> One])

\* w = np.ones_like(mu) / len(mu)
DefaultWeights(G) == Array([g \in 1..G |-> Rat(1, G)])

\* w = np.asarray(w, float); w = w / np.sum(w)
NormalisedWeights(w) ==
    LET s == RSum(Array([g \in 1..Len(w) |-> FromInt(w[g])]))
    IN  Array([g \in 1..Len(w) |-> RDiv(FromInt(w[g]), s)])

\* lines 56-60: the weights the function uses
WeightsUsed(w, G) == IF w = <<>> THEN DefaultWeights(G) ELSE NormalisedWeights(w[1])

\* a = y + a0, b = n - y + b0
PostA(yy, prior, g) == RAdd(FromInt(yy[g]), prior[1])

PostB(yy, nn, prior, g) == RAdd(FromInt(nn[g] - yy[g]), prior[2])

\* mu = a / (a + b)
PostMean(a, b) == RDiv(a, RAdd(a, b))

\* var = (a * b) / ((a + b)**2 * (a + b + 1.0))
PostVar(a, b) ==
    LET s == RAdd(a, b)
    IN  RDiv(RMul(a, b), RMul(RMul(s, s), RAdd(s, One)))

\* variant: the means are summed without their weights
CombinedMeanUnweighted(ww, mu) == RSum(mu)

\* m = float(np.sum(w * mu))
CombinedMean(ww, mu) == RSum(Array([g \in 1..Len(mu) |-> RMul(ww[g], mu[g])]))

\* variant: the weights are not squared
VWithinLinear(ww, var) == RSum(Array([g \in 1..Len(var) |-> RMul(ww[g], var[g])]))

\* v_within = float(np.sum((w**2) * var))
VWithin(ww, var) ==
    RSum(Array([g \in 1..Len(var) |-> RMul(RMul(ww[g], ww[g]), var[g])]))

\* v_between = float(np.sum(w * (mu - m)**2))
VBetween(ww, mu, m0) ==
    RSum(Array([g \in 1..Len(mu) |->
            LET d == RSub(mu[g], m0) IN RMul(ww[g], RMul(d, d))]))

\* variant: drift_aware is ignored
TotalVarianceWithinOnly(v_within, v_between, drift_aware) == v_within

\* v = v_within + (v_between if drift_aware else 0.0)
TotalVariance(v_within, v_between, drift_aware) ==
    RAdd(v_within, IF drift_aware THEN v_between ELSE Zero)

\* variant: kappa without its "- 1.0"
MatchedBetaKappaPlusOne(m0, v0, ww) ==
    LET m  == Clip(m0, One)
        mm == Guarded(m, RMul(m, RSub(One, m)))
        v  == Clip(v0, mm)
        kappa == Guarded(v, RDiv(mm, v))
    IN  [alpha_star |-> Guarded(kappa, RMul(m, kappa)),
         beta_star  |-> Guarded(kappa, RMul(RSub(One, m), kappa)),
         m |-> m,
         v |-> v,
         w |-> ww]

\* lines 67-74: the guard rails and the matched Beta parameters; w is the local
\* w after lines 56-60, kept with the returned (alpha_star, beta_star, m, v)
MatchedBeta(m0, v0, ww) ==
    LET m  == Clip(m0, One)
        mm == Guarded(m, RMul(m, RSub(One, m)))
        v  == Clip(v0, mm)
        kappa == Guarded(v, RSub(RDiv(mm, v), One))
    IN  [alpha_star |-> Guarded(kappa, RMul(m, kappa)),
         beta_star  |-> Guarded(kappa, RMul(RSub(One, m), kappa)),
         m |-> m,
         v |-> v,
         w |-> ww]

\* the element of a singleton: {e : x \in {d}} evaluates the local d once
Only(S) == CHOOSE x \in S : TRUE

\* moment_matched_beta_for_average(y, n, w, prior, drift_aware)
moment_matched_beta_for_average(yy, nn, w, prior, drift_aware) ==
    LET G  == Len(yy)
        p0 == PriorUsed(prior)
    IN  Only({Only({Only({MatchedBeta(m0, v0, ww) :
                v0 \in {TotalVariance(VWithin(ww, var), VBetween(ww, mu, m0), drift_aware)}}) :
            m0 \in {CombinedMean(ww, mu)}}) :
        mu \in {Array([g \in 1..G |-> PostMean(PostA(yy, p0, g), PostB(yy, nn, p0, g))])},
        var \in {Array([g \in 1..G |-> PostVar(PostA(yy, p0, g), PostB(yy, nn, p0, g))])},
        ww \in {WeightsUsed(w, G)}})

\* what betaincinv returns outside its domain: nan
QNaN == [a |-> NaN, b |-> NaN, q |-> NaN]

\* scipy.special.betaincinv(a, b, q): the q-quantile of Beta(a, b), kept as
\* the term of its arguments; nan (no exception) unless a > 0, b > 0 and
\* 0 <= q <= 1
betaincinv(a, b, q) ==
    IF RLt(Zero, a) /\ RLt(Zero, b) /\ RLe(Zero, q) /\ RLe(q, One)
    THEN [a |-> a, b |-> b, q |-> q]
    ELSE QNaN

\* variant: the difference taken the other way round
FSubReversed(x, z) == [minuend |-> z, subtrahend |-> x]

\* float subtraction and halving of quantiles, kept as terms
FSub(x, z) == [minuend |-> x, subtrahend |-> z]

FHalf(x) == [half_of |-> x]

\* level=0.6827
DefaultLevel == Rat(6827, 10000)

\* variant: the two tails of the interval are exchanged
JeffreysTailsSwapped(yv, nv, level) ==
    LET a == RAdd(FromInt(yv), Rat(1, 2))
        b == RAdd(FromInt(nv - yv), Rat(1, 2))
        alpha == RSub(One, level)
    IN  <<betaincinv(a, b, Rat(1, 2)),
          betaincinv(a, b, RSub(One, RDiv(alpha, FromInt(2)))),
          betaincinv(a, b, RDiv(alpha, FromInt(2)))>>

\* jeffreys_median_ci(y, n, level) of one element: (median, lo, hi)
jeffreys_median_ci(yv, nv, level) ==
    LET a == RAdd(FromInt(yv), Rat(1, 2))
        b == RAdd(FromInt(nv - yv), Rat(1, 2))
        alpha == RSub(One, level)
    IN  <<betaincinv(a, b, Rat(1, 2)),
          betaincinv(a, b, RDiv(alpha, FromInt(2))),
          betaincinv(a, b, RSub(One, RDiv(alpha, FromInt(2))))>>

\* beta_quartiles(a, b): (25th, 50th, 75th percentile)
beta_quartiles(a, b) ==
    <<betaincinv(a, b, Rat(1, 4)), betaincinv(a, b, Rat(1, 2)), betaincinv(a, b, Rat(3, 4))>>

-----------------------------------------------------------------------------
\* repository/reusable/make_shot_scan.py: ShotCarrier

\* get_dataset("threshold", default=2000)
DefaultThreshold == 2000

\* variant: the two indices are exchanged in the key
PreKeyTransposed(gi, roi_i) == "G" \o ToString(roi_i) \o "R" \o ToString(gi)

\* f"G{gi}R{roi_i}" and f"GaR{roi_i}", indices counted from 0
PreKey(gi, roi_i) == "G" \o ToString(gi) \o "R" \o ToString(roi_i)

PreKeyAvg(roi_i) == "GaR" \o ToString(roi_i)

\* the channels declared per pooled ROI and per (group, ROI) cell
AvgSuffixes == {"_p", "_p_upper_err", "_p_lower_err", "_p_avg_err"}

CellSuffixes == AvgSuffixes \cup {"_n", "_y"}

\* len(rois) groups, len(rois[0]) ROIs
NumGroups(rois) == Len(rois)

NumRois(rois) == Len(rois[1])

\* get_default_analyses: the names of the channels of the CustomAnalysis
get_default_analyses(rois) ==
    {PreKeyAvg(roi_i) \o suf : roi_i \in 0..(NumRois(rois) - 1), suf \in AvgSuffixes}
    \cup {PreKey(gi, roi_i) \o suf :
            gi \in 0..(NumGroups(rois) - 1), roi_i \in 0..(NumRois(rois) - 1),
            suf \in CellSuffixes}

\* variant: the comparison is the other way round
ClassifyBelow(c, t) == IF c < t THEN 1 ELSE 0

\* counts > threshold, of one element
Classify(c, t) == IF c > t THEN 1 ELSE 0

\* the [group, roi] extents of np.asarray(result_values[handle]); an empty
\* batch is a 1-D array of length 0 and its column sums are 0-d
TableGroups(cnt) == IF Len(cnt) = 0 THEN 0 ELSE Len(cnt[1])

TableRois(cnt) == IF Len(cnt) = 0 THEN 0 ELSE Len(cnt[1][1])

\* variant: the ones are summed over the group axis
AggregateNOverGroups(cnt) ==
    Array([g \in 1..TableGroups(cnt) |->
        Array([r \in 1..TableRois(cnt) |-> ISum(Array([h \in 1..TableGroups(cnt) |-> 1]))])])

\* n = np.sum(np.ones_like(counts), axis=0)
AggregateN(cnt) ==
    Array([g \in 1..TableGroups(cnt) |->
        Array([r \in 1..TableRois(cnt) |-> ISum(Array([s \in 1..Len(cnt) |-> 1]))])])

\* variant: only the last shot is classified
AggregateYLastShot(cnt, t) ==
    Array([g \in 1..TableGroups(cnt) |->
        Array([r \in 1..TableRois(cnt) |-> Classify(cnt[Len(cnt)][g][r], t)])])

\* y = np.sum(counts > threshold, axis=0)
AggregateY(cnt, t) ==
    Array([g \in 1..TableGroups(cnt) |->
        Array([r \in 1..TableRois(cnt) |->
            ISum(Array([s \in 1..Len(cnt) |-> Classify(cnt[s][g][r], t)]))])])

\* arr[gi, roi_i] raises IndexError outside the array (indices from 0)
InRange(arr, gi, roi_i) == gi < Len(arr) /\ roi_i < Len(arr[1])

\* analysis_results[key].push(arr[gi, roi_i]): the subscript of
\* analysis_results is evaluated first, then the element
PushElement(st, key, arr, gi, roi_i) ==
    IF st.status # "done" THEN st
    ELSE IF key \notin DOMAIN st.res THEN [st EXCEPT !.status = "KeyError"]
    ELSE IF ~InRange(arr, gi, roi_i) THEN [st EXCEPT !.status = "IndexError"]
    ELSE [st EXCEPT !.res[key] = Append(@, arr[gi + 1][roi_i + 1])]

\* analysis_results[key].push(value)
PushValue(st, key, value) ==
    IF st.status # "done" THEN st
    ELSE IF key \notin DOMAIN st.res THEN [st EXCEPT !.status = "KeyError"]
    ELSE [st EXCEPT !.res[key] = Append(@, value)]

\* lines 67-73: the six pushes of cell (gi, roi_i)
PushCell(st, loc, gi, roi_i) ==
    LET k  == PreKey(gi, roi_i)
        s1 == PushElement(st, k \o "_p", loc.med, gi, roi_i)
        s2 == PushElement(s1, k \o "_p_upper_err", loc.rel_upper_err, gi, roi_i)
        s3 == PushElement(s2, k \o "_p_lower_err", loc.rel_low_err, gi, roi_i)
        s4 == PushElement(s3, k \o "_p_avg_err", loc.rel_avg_err, gi, roi_i)
        s5 == PushElement(s4, k \o "_n", loc.n, gi, roi_i)
    IN  PushElement(s5, k \o "_y", loc.y, gi, roi_i)

\* for gi in range(len(rois)), from gi on
RECURSIVE GroupLoop(_, _, _, _, _)
GroupLoop(st, loc, gi, roi_i, groups) ==
    IF gi >= groups \/ st.status # "done" THEN st
    ELSE GroupLoop(PushCell(st, loc, gi, roi_i), loc, gi + 1, roi_i, groups)

\* variant: arr[roi_i, :], nothing when there is no such group
Row(arr, roi_i) == IF roi_i + 1 \in DOMAIN arr THEN arr[roi_i + 1] ELSE <<>>

\* arr[:, roi_i]
Column(arr, roi_i) == Array([g \in 1..Len(arr) |-> arr[g][roi_i + 1]])

\* variant: the pooled record from moment_matched_beta_for_average (Model B)
PooledParametersModelB(yc, nc) ==
    LET r == moment_matched_beta_for_average(yc, nc, <<>>, <<>>, FALSE)
    IN  <<r.alpha_star, r.beta_star>>

\* line 74: a_star, b_star = pooled_posterior_beta(y[:,roi_i], n[:,roi_i])
PooledParameters(yc, nc) == pooled_posterior_beta(yc, nc, <<>>)

\* lines 74-83: the pooled record of roi_i
PushPooled(st, loc, roi_i) ==
    IF st.status # "done" THEN st
    ELSE IF Len(loc.y) = 0 \/ roi_i >= Len(loc.y[1])
    THEN [st EXCEPT !.status = "IndexError"]
    ELSE
    LET k  == PreKeyAvg(roi_i)
        ab == PooledParameters(Column(loc.y, roi_i), Column(loc.n, roi_i))
        q  == beta_quartiles(ab[1], ab[2])
        lower_all == q[1]
        med_all   == q[2]
        upper_all == q[3]
        s1 == PushValue(st, k \o "_p", med_all)
        s2 == PushValue(s1, k \o "_p_upper_err", FSub(upper_all, med_all))
        s3 == PushValue(s2, k \o "_p_lower_err", FSub(med_all, lower_all))
    IN  PushValue(s3, k \o "_p_avg_err", FHalf(FSub(upper_all, lower_all)))

\* for roi_i in range(len(rois[0])), from roi_i on
RECURSIVE RoiLoop(_, _, _, _)
RoiLoop(st, loc, roi_i, rois) ==
    IF roi_i >= NumRois(rois) \/ st.status # "done" THEN st
    ELSE RoiLoop(PushPooled(GroupLoop(st, loc, 0, roi_i, NumGroups(rois)), loc, roi_i),
                 loc, roi_i + 1, rois)

\* lines 52-62: the locals of _analyse_shots_to_p
Locals(cnt, t) ==
    LET nn == AggregateN(cnt)
        yy == AggregateY(cnt, t)
        ci == Array([g \in 1..Len(yy) |->
                Array([r \in 1..Len(yy[g]) |->
                    jeffreys_median_ci(yy[g][r], nn[g][r], DefaultLevel)])])
        El(F(_)) == Array([g \in 1..Len(yy) |-> Array([r \in 1..Len(yy[g]) |-> F(ci[g][r])])])
        Med(c) == c[1]
        Upper(c) == FSub(c[3], c[1])
        Lower(c) == FSub(c[1], c[2])
        Avg(c) == FHalf(FSub(c[3], c[2]))
    IN  [n |-> nn, y |-> yy, med |-> El(Med), rel_upper_err |-> El(Upper),
         rel_low_err |-> El(Lower), rel_avg_err |-> El(Avg)]

-----------------------------------------------------------------------------
\* Callers of the stats functions: the inputs a call can be given.

\* (y, n) of one group: y successes in n trials
TrialPairs == {p \in (0..MaxTrials) \X (0..MaxTrials) : p[1] <= p[2]}

TrialLists == UNION {[1..G -> TrialPairs] : G \in 1..MaxGroups}

\* prior: omitted (the default), or an asymmetric (a0, b0)
PriorArgs == {<<>>, << <<Rat(1, 2), Rat(3, 2)>> >>}

\* entries of a supplied weight list
WeightValues == {0, 1, 2}

\* w: omitted, or a weight list; the lists are taken in non-decreasing order,
\* the trial lists being taken in every order
WeightArgs(G) ==
    {<<>>} \cup {<<w>> : w \in {x \in [1..G -> WeightValues] :
                                  \A g \in 1..(G - 1) : x[g] <= x[g + 1]}}

YOf(l) == [g \in 1..Len(l) |-> l[g][1]]

NOf(l) == [g \in 1..Len(l) |-> l[g][2]]

\* the analysis is not running in the stats specifications
AnalysisUnused ==
    /\ datasets = [rois |-> <<1, 1>>]
    /\ channels = {}
    /\ shape = <<1, 1>>
    /\ counts = <<>>
    /\ pc = "idle"
    /\ n = <<>>
    /\ y = <<>>
    /\ analysis_results = <<>>
    /\ prev = <<>>

\* no quantile function is called
QuantileUnused == arg_level = <<>> /\ quant_ret = <<>>

\* no statistics function is called
StatsUnused ==
    /\ arg_y = <<>>
    /\ arg_n = <<>>
    /\ arg_w = <<>>
    /\ arg_prior = <<>>
    /\ pooled_ret = <<>>
    /\ avg_ret = <<>>
    /\ QuantileUnused

\* no ShotChunk, no UrukulToneRAM and no applet has been built
OthersUnused == chunk = <<>> /\ urukul = <<>> /\ applet = <<>>

\* ---- pooled_posterior_beta ----

InitPooled ==
    /\ AnalysisUnused
    /\ \E l \in TrialLists : arg_y = YOf(l) /\ arg_n = NOf(l)
    /\ arg_w = <<>>
    /\ arg_prior \in PriorArgs
    /\ pooled_ret = <<>>
    /\ avg_ret = <<>>
    /\ QuantileUnused
    /\ OthersUnused

\* a, b = pooled_posterior_beta(y, n, prior); the caller logs the number of
\* groups it passed and the value returned.  It calls twice: once per grouping.
CallPooled ==
    /\ Len(pooled_ret) < 2
    /\ pooled_ret' = Append(pooled_ret,
                            [groups |-> Len(arg_y),
                             value  |-> pooled_posterior_beta(arg_y, arg_n, arg_prior)])
    /\ UNCHANGED <<arg_y, arg_n, arg_w, arg_prior, avg_ret>>
    /\ UNCHANGED quantile_vars
    /\ UNCHANGED analysis_vars
    /\ UNCHANGED other_vars

\* every <<total successes, total trials>> a list of TrialLists can have
Totals == {t \in (0..MaxGroups * MaxTrials) \X (0..MaxGroups * MaxTrials) : t[1] <= t[2]}

\* the lists of groups with given totals: those of TrialLists, and the single
\* group that holds all the trials
ListsByTotals ==
    [t \in Totals |->
        {l \in TrialLists : ISum(YOf(l)) = t[1] /\ ISum(NOf(l)) = t[2]} \cup {<<t>>}]

\* The caller groups the same shots differently: any list of groups with the
\* same total successes and total trials, or all of them merged into one group.
Regroup ==
    /\ Len(pooled_ret) = 1
    /\ \E l \in ListsByTotals[<<ISum(arg_y), ISum(arg_n)>>] :
          /\ YOf(l) # arg_y \/ NOf(l) # arg_n
          /\ arg_y' = YOf(l)
          /\ arg_n' = NOf(l)
    /\ UNCHANGED <<arg_w, arg_prior, pooled_ret, avg_ret>>
    /\ UNCHANGED quantile_vars
    /\ UNCHANGED analysis_vars
    /\ UNCHANGED other_vars

NextPooled == CallPooled \/ Regroup

SpecPooled == InitPooled /\ [][NextPooled]_vars

\* ---- moment_matched_beta_for_average ----

InitAverage ==
    /\ AnalysisUnused
    /\ \E l \in TrialLists :
          /\ arg_y = YOf(l)
          /\ arg_n = NOf(l)
          /\ arg_w \in WeightArgs(Len(l))
    /\ arg_prior \in PriorArgs
    /\ pooled_ret = <<>>
    /\ avg_ret = <<>>
    /\ QuantileUnused
    /\ OthersUnused

\* variant: the weights are rescaled in place (w *= len(w)) in the array
\* np.asarray handed back, which is the caller's
CallerWeightsScaledInPlace(w) ==
    IF w = <<>> THEN w ELSE <<Array([g \in 1..Len(w[1]) |-> w[1][g] * Len(w[1])])>>

\* The caller's weight array after the call: np.asarray(w, float) may return
\* the caller's own array, and w = w / np.sum(w) binds the local name to a new
\* array, so the caller's array keeps its elements.
CallerWeights(w) == w

\* f with f[k] = v added or replaced
Extend(f, k, v) == [x \in DOMAIN f \cup {k} |-> IF x = k THEN v ELSE f[x]]

\* moment_matched_beta_for_average(y, n, w, prior, drift_aware=d), called as
\* plot_combined_posteriors does: without drift first, then drift-aware
CallAverage(d) ==
    /\ d \notin DOMAIN avg_ret
    /\ d => FALSE \in DOMAIN avg_ret
    /\ avg_ret' = Extend(avg_ret, d,
                         moment_matched_beta_for_average(arg_y, arg_n, arg_w, arg_prior, d))
    /\ arg_w' = CallerWeights(arg_w)
    /\ UNCHANGED <<arg_y, arg_n, arg_prior, pooled_ret>>
    /\ UNCHANGED quantile_vars
    /\ UNCHANGED analysis_vars
    /\ UNCHANGED other_vars

NextAverage == \E d \in BOOLEAN : CallAverage(d)

SpecAverage == InitAverage /\ [][NextAverage]_vars

\* ---- jeffreys_median_ci and beta_quartiles ----

\* (y, n) of one element, y > n included: the function does not check it
AnyPairs == (0..MaxTrials) \X (0..MaxTrials)

AnyLists == UNION {[1..G -> AnyPairs] : G \in 1..MaxGroups}

\* level: omitted (the default 0.6827), or given
LevelArgs == {<<>>, <<Rat(1, 2)>>, <<Rat(19, 20)>>}

LevelUsed(level) == IF level = <<>> THEN DefaultLevel ELSE level[1]

\* parameters beta_quartiles can be handed: -1/2, 0, 1/2, 1, ...
ABValues == {Rat(k, 2) : k \in (-1)..(2 * MaxTrials + 1)}

\* the arguments of a jeffreys_median_ci call are set, or none of them: then
\* beta_quartiles is the function called
InitQuantile ==
    /\ AnalysisUnused
    /\ \/ \E l \in AnyLists :
             /\ arg_y = YOf(l)
             /\ arg_n = NOf(l)
             /\ arg_level \in LevelArgs
       \/ arg_y = <<>> /\ arg_n = <<>> /\ arg_level = <<>>
    /\ arg_w = <<>>
    /\ arg_prior = <<>>
    /\ pooled_ret = <<>>
    /\ avg_ret = <<>>
    /\ quant_ret = <<>>
    /\ OthersUnused

\* median, lo, hi = jeffreys_median_ci(y, n, level), vectorised over y, n
CallJeffreys ==
    /\ arg_y # <<>>
    /\ quant_ret = <<>>
    /\ \E ci \in {Array([g \in 1..Len(arg_y) |->
                      jeffreys_median_ci(arg_y[g], arg_n[g], LevelUsed(arg_level))])} :
          quant_ret' = [fn |-> "jeffreys_median_ci",
                        median |-> Array([g \in 1..Len(arg_y) |-> ci[g][1]]),
                        lo     |-> Array([g \in 1..Len(arg_y) |-> ci[g][2]]),
                        hi     |-> Array([g \in 1..Len(arg_y) |-> ci[g][3]])]
    /\ UNCHANGED <<arg_y, arg_n, arg_w, arg_prior, pooled_ret, avg_ret, arg_level>>
    /\ UNCHANGED analysis_vars
    /\ UNCHANGED other_vars

\* lower, med, upper = beta_quartiles(a, b)
CallQuartiles ==
    /\ arg_y = <<>>
    /\ quant_ret = <<>>
    /\ \E a \in ABValues, b \in ABValues :
          quant_ret' = [fn |-> "beta_quartiles", a |-> a, b |-> b,
                        value |-> beta_quartiles(a, b)]
    /\ UNCHANGED <<arg_y, arg_n, arg_w, arg_prior, pooled_ret, avg_ret, arg_level>>
    /\ UNCHANGED analysis_vars
    /\ UNCHANGED other_vars

NextQuantile == CallJeffreys \/ CallQuartiles

SpecQuantile == InitQuantile /\ [][NextQuantile]_vars

-----------------------------------------------------------------------------
\* The shot analysis: a batch of shots, the datasets, one _analyse_shots_to_p.

\* <<groups, ROIs>> of a count table or of the 'rois' dataset
Shapes == {<<1, 1>>, <<1, 2>>, <<2, 1>>, <<2, 2>>}

\* raw counts of one ROI: at and just above the default threshold
CountValues == {2000, 2001}

\* values the 'threshold' dataset is set to, when it is set
ThresholdValues == {2001}

\* a 'rois' dataset of the given extents: one box per (group, ROI)
RoisOf(sh) == Array([g \in 1..sh[1] |-> Array([r \in 1..sh[2] |-> "box"])])

CountTables(sh) == [1..sh[1] -> [1..sh[2] -> CountValues]]

\* get_dataset("threshold", default=2000)
Threshold == IF "threshold" \in DOMAIN datasets THEN datasets.threshold ELSE DefaultThreshold

\* after construction: the datasets exist, the channels are declared from the
\* 'rois' dataset, no shot has run
Init ==
    /\ \E sh \in Shapes :
          \/ datasets = [rois |-> RoisOf(sh)]
          \/ \E t \in ThresholdValues : datasets = [rois |-> RoisOf(sh), threshold |-> t]
    /\ channels = get_default_analyses(datasets.rois)
    /\ shape \in Shapes
    /\ counts = <<>>
    /\ pc = "idle"
    /\ n = <<>>
    /\ y = <<>>
    /\ analysis_results = [c \in channels |-> <<>>]
    /\ arg_y = <<>>
    /\ arg_n = <<>>
    /\ arg_w = <<>>
    /\ arg_prior = <<>>
    /\ pooled_ret = <<>>
    /\ avg_ret = <<>>
    /\ QuantileUnused
    /\ OthersUnused
    /\ prev = <<>>

\* ShotCarrier.run_once: the shot pushes one count table to the counts channel
RunOnce ==
    /\ pc = "idle"
    /\ Len(counts) < MaxShots
    /\ \E tab \in CountTables(shape) : counts' = Append(counts, tab)
    /\ UNCHANGED <<datasets, channels, shape, pc, n, y, analysis_results, prev>>
    /\ UNCHANGED stats_vars
    /\ UNCHANGED other_vars

\* _analyse_shots_to_p(axis_values, result_values, analysis_results)
AnalyseShots ==
    /\ pc = "idle"
    /\ \E loc \in {Locals(counts, Threshold)} :
       \E st \in {RoiLoop([res |-> analysis_results, status |-> "done"], loc, 0, datasets.rois)} :
           /\ n' = loc.n
           /\ y' = loc.y
           /\ analysis_results' = st.res
           /\ pc' = st.status
    /\ UNCHANGED <<datasets, channels, shape, counts, prev>>
    /\ UNCHANGED stats_vars
    /\ UNCHANGED other_vars

Next == RunOnce \/ AnalyseShots

Spec == Init /\ [][Next]_vars

\* ---- the same batch analysed under two thresholds ----

\* values the 'threshold' dataset is set to around the counts of CountValues
RetuneValues == {1999, 2000, 2001}

\* extents of the count table, one cell being like any other
RetuneShapes == {<<1, 1>>, <<1, 2>>, <<2, 1>>}

\* batches of one to MaxShots shots
Batches(sh) == UNION {[1..k -> CountTables(sh)] : k \in 1..MaxShots}

\* a batch is recorded, its 'rois' dataset has the extents of the table
InitThreshold ==
    /\ shape \in RetuneShapes
    /\ \/ datasets = [rois |-> RoisOf(shape)]
       \/ \E t \in RetuneValues : datasets = [rois |-> RoisOf(shape), threshold |-> t]
    /\ channels = get_default_analyses(datasets.rois)
    /\ counts \in Batches(shape)
    /\ pc = "idle"
    /\ n = <<>>
    /\ y = <<>>
    /\ analysis_results = [c \in channels |-> <<>>]
    /\ arg_y = <<>>
    /\ arg_n = <<>>
    /\ arg_w = <<>>
    /\ arg_prior = <<>>
    /\ pooled_ret = <<>>
    /\ avg_ret = <<>>
    /\ QuantileUnused
    /\ OthersUnused
    /\ prev = <<>>

\* The 'threshold' dataset is set to t after an analysis, whose threshold, n
\* and y are remembered; the same batch is then analysed again.
Retune(t) ==
    /\ pc = "done"
    /\ prev = <<>>
    /\ prev' = [threshold |-> Threshold, n |-> n, y |-> y]
    /\ datasets' = [k \in DOMAIN datasets \cup {"threshold"} |->
                       IF k = "threshold" THEN t ELSE datasets[k]]
    /\ pc' = "idle"
    /\ UNCHANGED <<channels, shape, counts, n, y, analysis_results>>
    /\ UNCHANGED stats_vars
    /\ UNCHANGED other_vars

NextThreshold == AnalyseShots \/ \E t \in RetuneValues : Retune(t)

SpecThreshold == InitThreshold /\ [][NextThreshold]_vars

\* ---- the 'rois' dataset written between declaration and analysis ----

\* the datasets exist; get_default_analyses has not been called yet
InitDeclare ==
    /\ \E sh \in Shapes : datasets = [rois |-> RoisOf(sh)] /\ shape = sh
    /\ channels = {}
    /\ counts = <<>>
    /\ pc = "idle"
    /\ n = <<>>
    /\ y = <<>>
    /\ analysis_results = <<>>
    /\ arg_y = <<>>
    /\ arg_n = <<>>
    /\ arg_w = <<>>
    /\ arg_prior = <<>>
    /\ pooled_ret = <<>>
    /\ avg_ret = <<>>
    /\ QuantileUnused
    /\ OthersUnused
    /\ prev = <<>>

\* get_default_analyses(): called once when the scan is set up; the channels
\* of the analysis are those of the 'rois' dataset as it is now
GetDefaultAnalyses ==
    /\ pc = "idle"
    /\ channels = {}
    /\ counts = <<>>
    /\ channels' = get_default_analyses(datasets.rois)
    /\ analysis_results' = [c \in channels' |-> <<>>]
    /\ UNCHANGED <<datasets, shape, counts, pc, n, y, prev>>
    /\ UNCHANGED stats_vars
    /\ UNCHANGED other_vars

\* set_dataset("rois", ...) between two batches: the shots that follow give
\* one count per ROI of the new list
WriteRois(sh) ==
    /\ pc = "idle"
    /\ counts = <<>>
    /\ RoisOf(sh) # datasets.rois
    /\ datasets' = [datasets EXCEPT !.rois = RoisOf(sh)]
    /\ shape' = sh
    /\ UNCHANGED <<channels, counts, pc, n, y, analysis_results, prev>>
    /\ UNCHANGED stats_vars
    /\ UNCHANGED other_vars

\* the scan runs its shots and its analysis once the channels are declared
NextDeclare ==
    \/ GetDefaultAnalyses
    \/ \E sh \in Shapes : WriteRois(sh)
    \/ channels # {} /\ RunOnce
    \/ channels # {} /\ AnalyseShots

SpecDeclare == InitDeclare /\ [][NextDeclare]_vars

\* ---- components.py: ReadoutFluorescence.run_once ----

\* pixel values: non-negative, two bright pixels add up to 2^15
PixelValues == {0, 16384}

\* image_from_probs_and_locs(...): any image, indexed [row][column] from 1
Images == [1..ImageSide -> [1..ImageSide -> PixelValues]]

\* ROI boxes (y0, y1, x0, x1) within the image
Boxes == {b \in (0..ImageSide) \X (0..ImageSide) \X (0..ImageSide) \X (0..ImageSide) :
            b[1] <= b[2] /\ b[3] <= b[4]}

\* the "sensible default" ROI list of run_once
DefaultRois ==
    << <<15, 18, 5, 8>>, <<15, 18, 11, 14>>, <<15, 18, 17, 20>>, <<15, 18, 23, 26>>,
       <<15, 18, 29, 32>>, <<15, 18, 35, 38>>, <<15, 18, 41, 44>>, <<15, 18, 47, 50>> >>

RECURSIVE SumOver(_, _)
SumOver(f, S) ==
    IF S = {} THEN 0
    ELSE LET x == CHOOSE x \in S : TRUE IN f[x] + SumOver(f, S \ {x})

\* int(image[y0:y1, x0:x1].sum()): a slice is cut at the edge of the image
RegionSum(img, box) ==
    LET rows == {r \in 1..Len(img) : box[1] < r /\ r <= box[2]}
        cols == {c \in 1..Len(img) : box[3] < c /\ c <= box[4]}
    IN  SumOver([rc \in rows \X cols |-> img[rc[1]][rc[2]]], rows \X cols)

InInt16(v) == -32768 <= v /\ v <= 32767

\* counts[roi_i] = cts into the np.int16 array, where cts does not fit: the
\* value modulo 2^16 in the signed range (numpy 1.x)
StoredInt16(v) == ((v + 32768) % 65536) - 32768

\* no 'rois' dataset, or a list of one box; nothing pushed yet
InitReadout ==
    /\ \/ datasets = <<>>
       \/ \E b \in Boxes : datasets = [rois |-> <<b>>]
    /\ channels = {}
    /\ shape = <<1, 1>>
    /\ counts = <<>>
    /\ pc = "idle"
    /\ n = <<>>
    /\ y = <<>>
    /\ analysis_results = <<>>
    /\ arg_y = <<>>
    /\ arg_n = <<>>
    /\ arg_w = <<>>
    /\ arg_prior = <<>>
    /\ pooled_ret = <<>>
    /\ avg_ret = <<>>
    /\ QuantileUnused
    /\ OthersUnused
    /\ prev = <<>>

\* ReadoutFluorescence.run_once: a new image is stored as 'last_image', the
\* ROI list is read (and set to the default when it is missing), the sum of
\* each box is stored into an int16 array, and the array is pushed.  Storing a
\* sum that does not fit wraps around (numpy 1.x) or raises OverflowError
\* (numpy 2.x) before anything is pushed.
ReadoutOnce ==
    /\ pc = "idle"
    /\ counts = <<>>
    /\ \E img \in Images :
       \E rois \in {IF "rois" \in DOMAIN datasets THEN datasets.rois ELSE DefaultRois} :
       \E sums \in {Array([i \in 1..Len(rois) |-> RegionSum(img, rois[i])])} :
          /\ datasets' = [rois |-> rois, last_image |-> img]
          /\ \/ /\ counts' = <<Array([i \in 1..Len(rois) |-> StoredInt16(sums[i])])>>
                /\ pc' = "idle"
             \/ /\ \E i \in 1..Len(rois) : ~InInt16(sums[i])
                /\ counts' = counts
                /\ pc' = "OverflowError"
    /\ UNCHANGED <<channels, shape, n, y, analysis_results, prev>>
    /\ UNCHANGED stats_vars
    /\ UNCHANGED other_vars

NextReadout == ReadoutOnce

SpecReadout == InitReadout /\ [][NextReadout]_vars

\* ---- ShotChunk: the scan over shot_index ----

\* the ShotChunk classes: reusable/make_shot_scan.py (and its copy under
\* cold_atom_sim_examples), and cold-atom-sim.py
ChunkClasses == {"make_shot_scan", "cold-atom-sim"}

\* np.linspace(start, stop, num, endpoint=True), for integer steps
Linspace(start, stop, num) ==
    [i \in 1..num |-> IF num = 1 THEN start
                      ELSE start + ((i - 1) * (stop - start)) \div (num - 1)]

\* LinearGenerator(start, stop, num_points, randomise_order)
LinearGenerator(start, stop, num_points, randomise_order) ==
    [start |-> start, stop |-> stop, num_points |-> num_points,
     randomise_order |-> randomise_order]

\* ScanOptions(num_repeats, num_repeats_per_point, randomise_order_globally)
ScanOptions(num_repeats, num_repeats_per_point, randomise_order_globally) ==
    [num_repeats |-> num_repeats, num_repeats_per_point |-> num_repeats_per_point,
     randomise_order_globally |-> randomise_order_globally]

\* the orders in which a list can be shuffled
Shuffles(l) ==
    {Array([i \in 1..Len(l) |-> l[p[i]]]) :
        p \in {q \in [1..Len(l) -> 1..Len(l)] : \A i, j \in 1..Len(l) : q[i] = q[j] => i = j}}

\* the points of the generator, in the orders it can give them
GeneratorPoints(gen) ==
    IF gen.randomise_order
    THEN Shuffles(Linspace(gen.start, gen.stop, gen.num_points))
    ELSE {Array(Linspace(gen.start, gen.stop, gen.num_points))}

\* every point num_repeats_per_point times, the whole scan num_repeats times
Repeated(points, opts) ==
    LET per == opts.num_repeats_per_point
        len == Len(points) * per
    IN  Array([k \in 1..(len * opts.num_repeats) |-> points[(((k - 1) % len) \div per) + 1]])

\* the axis values a run of the configured scan can visit, in order
Visits(spec) == {Repeated(points, spec.opts) : points \in GeneratorPoints(spec.gen)}

\* _configure(): the scan over shot_index gets N points from 0 to N - 1
configure(c) ==
    LET N == c.shots_per_chunk
    IN  [c EXCEPT !.spec = [gen  |-> LinearGenerator(0, N - 1, N, TRUE),
                            opts |-> ScanOptions(1, 1, FALSE)]]

\* cold-atom-sim.py configure_scan(): the same when the parameter has changed
\* since its last use(); the value is read with get(), which is not a use
configure_scan(c) == IF c.changed_after_use THEN configure(c) ELSE c

ConfigureOf(c) == IF c.variant = "cold-atom-sim" THEN configure_scan(c) ELSE configure(c)

\* build_fragment: shots_per_chunk is an IntParam with min=1; nothing is
\* configured and nothing has run
InitChunk ==
    /\ AnalysisUnused
    /\ StatsUnused
    /\ \E v \in ChunkClasses, N \in 1..MaxChunkShots :
          chunk = [variant |-> v, shots_per_chunk |-> N, changed_after_use |-> TRUE,
                   spec |-> <<>>, stage |-> "built", batch |-> <<>>]
    /\ urukul = <<>>
    /\ applet = <<>>

\* the parameter store of shots_per_chunk gets a new value (min=1)
SetShotsPerChunk(v) ==
    /\ v # chunk.shots_per_chunk
    /\ chunk' = [chunk EXCEPT !.shots_per_chunk = v,
                              !.changed_after_use = TRUE,
                              !.stage = IF @ = "built" THEN "built" ELSE "changed"]
    /\ UNCHANGED <<urukul, applet>>
    /\ UNCHANGED analysis_vars
    /\ UNCHANGED stats_vars

\* host_setup(): configure, then the setup of the subfragments
HostSetup ==
    /\ chunk.stage = "built"
    /\ chunk' = [ConfigureOf(chunk) EXCEPT !.stage = "set_up"]
    /\ UNCHANGED <<urukul, applet>>
    /\ UNCHANGED analysis_vars
    /\ UNCHANGED stats_vars

\* variant: device_setup() leaves the scan as it is
DeviceSetupWithoutConfigure ==
    /\ chunk.stage # "built"
    /\ chunk' = [chunk EXCEPT !.stage = "set_up"]
    /\ UNCHANGED <<urukul, applet>>
    /\ UNCHANGED analysis_vars
    /\ UNCHANGED stats_vars

\* device_setup(): configure, then device_setup_subfragments()
DeviceSetup ==
    /\ chunk.stage # "built"
    /\ chunk' = [ConfigureOf(chunk) EXCEPT !.stage = "set_up"]
    /\ UNCHANGED <<urukul, applet>>
    /\ UNCHANGED analysis_vars
    /\ UNCHANGED stats_vars

\* run_once(): the subscan runs as it was last configured; the batch is the
\* list of shot_index values visited.  The stage tells whether the parameter
\* was changed after the last setup.
RunChunk ==
    /\ chunk.stage # "built"
    /\ \E b \in Visits(chunk.spec) :
          chunk' = [chunk EXCEPT !.batch = b,
                                 !.stage = IF @ \in {"changed", "ran_stale"}
                                           THEN "ran_stale" ELSE "ran"]
    /\ UNCHANGED <<urukul, applet>>
    /\ UNCHANGED analysis_vars
    /\ UNCHANGED stats_vars

NextChunk ==
    \/ \E v \in 1..MaxChunkShots : SetShotsPerChunk(v)
    \/ HostSetup
    \/ DeviceSetup
    \/ RunChunk

SpecChunk == InitChunk /\ [][NextChunk]_vars

\* ---- other/hardware_tests/urukul_ram_pulse_satelite.py: UrukulToneRAM ----

\* SYSCLK_HZ in MHz, BH_DWELL_S in ns, ATT in dB: the values to edit
SysclkValues == {500, 1000}

DwellValues == {100, 200, 1000, 4000}

AttValues == {0, 10, 20}

\* int(round(a / b)) for a >= 0, b > 0: halves go to the even neighbour
RoundDiv(a, b) ==
    LET q == a \div b
        r == a % b
    IN  IF 2 * r < b THEN q
        ELSE IF 2 * r > b THEN q + 1
        ELSE IF q % 2 = 0 THEN q ELSE q + 1

Max(a, b) == IF a >= b THEN a ELSE b

\* build(): the devices and the host-side buffers
InitUrukul ==
    /\ AnalysisUnused
    /\ StatsUnused
    /\ chunk = <<>>
    /\ applet = <<>>
    /\ \E clk \in SysclkValues, dwell \in DwellValues, att \in AttValues :
          urukul = [SYSCLK_MHZ |-> clk, BH_DWELL_NS |-> dwell, ATT |-> att,
                    pc |-> "built", stmt |-> 1,
                    ram_amp_len |-> 0, idx_off |-> 0, idx_one |-> 2,
                    idx_bh_start |-> 4, idx_bh_end |-> 4, step_cycles |-> 0,
                    dds_ram_len |-> 0, profiles |-> <<>>, ram_enable |-> 0,
                    sw |-> FALSE, played |-> <<>>]

\* prepare(): the step of the BH segment and the RAM payload
\* [0.0, 0.0, 1.0, 1.0, BH window of n_bh samples]
Prepare ==
    /\ urukul.pc = "built"
    /\ \E n_bh \in {Max(8, RoundDiv(8000, urukul.BH_DWELL_NS))} :
          urukul' = [urukul EXCEPT
                        !.step_cycles = Max(1, RoundDiv(urukul.SYSCLK_MHZ * urukul.BH_DWELL_NS, 1000)),
                        !.idx_off = 0,
                        !.idx_one = 2,
                        !.idx_bh_start = 4,
                        !.idx_bh_end = 4 + n_bh - 1,
                        !.ram_amp_len = 4 + n_bh,
                        !.pc = "prepared"]
    /\ UNCHANGED <<chunk, applet>>
    /\ UNCHANGED analysis_vars
    /\ UNCHANGED stats_vars

\* set_profile_ram(start, end, step, profile, mode)
ProfileRam(start, end, step, mode) == [start |-> start, end |-> end, step |-> step, mode |-> mode]

\* _program(): the RAM is written once, profiles 0, 1 and 2 point into it,
\* RAM playback to the amplitude is enabled and the RF switch is on
Program ==
    /\ urukul.pc = "prepared"
    /\ urukul' = [urukul EXCEPT
                    !.dds_ram_len = urukul.ram_amp_len,
                    !.profiles =
                        (0 :> ProfileRam(urukul.idx_off, urukul.idx_off, 1, "DIRECTSWITCH")) @@
                        (1 :> ProfileRam(urukul.idx_one, urukul.idx_one, 1, "DIRECTSWITCH")) @@
                        (2 :> ProfileRam(urukul.idx_bh_start, urukul.idx_bh_end,
                                         urukul.step_cycles, "RAMPUP")),
                    !.ram_enable = 1,
                    !.sw = TRUE,
                    !.pc = "sequence"]
    /\ UNCHANGED <<chunk, applet>>
    /\ UNCHANGED analysis_vars
    /\ UNCHANGED stats_vars

\* the statements of _sequence() that are executed, as (profile, delay in us):
\* lines 132-142.  Lines 144-163, the loop of ten repetitions, are the text of
\* a string literal and are not executed.
SequenceSteps == << <<0, 10>>, <<1, 10>>, <<0, 10>> >>

\* cpld.set_profile(p); io_update; delay(d): the next statement of _sequence()
SequenceStep ==
    /\ urukul.pc = "sequence"
    /\ urukul' = [urukul EXCEPT
                    !.played = Append(@, SequenceSteps[urukul.stmt]),
                    !.stmt = @ + 1,
                    !.pc = IF urukul.stmt = Len(SequenceSteps) THEN "done" ELSE "sequence"]
    /\ UNCHANGED <<chunk, applet>>
    /\ UNCHANGED analysis_vars
    /\ UNCHANGED stats_vars

\* run(): _program(), then _sequence()
NextUrukul == Prepare \/ Program \/ SequenceStep

SpecUrukul == InitUrukul /\ [][NextUrukul]_vars

\* ---- image_roi_applet.py: ImageWithROIs ----

\* float pixels: a number, nan or +inf
Pix(v) == <<"num", v>>

PixNaN == <<"nan", 0>>

PixInf == <<"inf", 0>>

PixelFloats == {Pix(0), Pix(1), PixNaN, PixInf}

\* np.isfinite
IsFinite(u) == u[1] = "num"

\* x <= y for floats that are not nan
PixLe(u, v) == v = PixInf \/ (u # PixInf /\ u[2] <= v[2])

\* np.nanmin(arr), np.nanmax(arr): nan is skipped, nan if nothing is left
NanMin(arr) ==
    LET vals == {arr[i] : i \in 1..Len(arr)} \ {PixNaN}
    IN  IF vals = {} THEN PixNaN ELSE CHOOSE m \in vals : \A v \in vals : PixLe(m, v)

NanMax(arr) ==
    LET vals == {arr[i] : i \in 1..Len(arr)} \ {PixNaN}
    IN  IF vals = {} THEN PixNaN ELSE CHOOSE m \in vals : \A v \in vals : PixLe(v, m)

\* variant: the levels are set without looking at lo and hi
ApplyLevelsUnchecked(a, arr) ==
    IF arr = <<>> THEN [ok |-> FALSE, applet |-> a]
    ELSE [ok |-> TRUE, applet |-> [a EXCEPT !.levels = <<NanMin(arr[1]), NanMax(arr[1])>>]]

\* _apply_levels_minmax(arr), arr = <<>> for None: the widget afterwards and
\* the value returned
apply_levels_minmax(a, arr) ==
    IF arr = <<>> THEN [ok |-> FALSE, applet |-> a]
    ELSE LET lo == NanMin(arr[1])
             hi == NanMax(arr[1])
         IN  IF ~IsFinite(lo) \/ ~IsFinite(hi) \/ lo = hi
             THEN [ok |-> FALSE, applet |-> a]
             ELSE [ok |-> TRUE, applet |-> [a EXCEPT !.levels = <<lo, hi>>]]

\* _on_autoscale_toggled(state)
on_autoscale_toggled(a, state) ==
    LET a1 == [a EXCEPT !._autoscale = state]
    IN  IF state /\ a1._img_np # <<>>
        THEN apply_levels_minmax(a1, a1._img_np).applet
        ELSE a1

\* _chk_autoscale.setChecked(state): toggled is emitted when the state of the
\* checkbox changes, and its slot runs before setChecked returns
setChecked(a, state) ==
    IF a.checked = state THEN a
    ELSE on_autoscale_toggled([a EXCEPT !.checked = state], state)

\* the first occurrence of item taken out of a list
RECURSIVE RemoveOne(_, _)
RemoveOne(l, item) ==
    IF l = <<>> THEN <<>>
    ELSE IF Head(l) = item THEN Tail(l)
    ELSE <<Head(l)>> \o RemoveOne(Tail(l), item)

RECURSIVE RemoveAll(_, _)
RemoveAll(l, items) ==
    IF items = <<>> THEN l ELSE RemoveAll(RemoveOne(l, Head(items)), Tail(items))

\* variant: the lists are emptied, the items stay in the view
ClearListsOnly(a) == [a EXCEPT !._roi_curves = <<>>, !._roi_labels = <<>>]

\* _clear_rois(): every curve and label is removed from the view box
clear_rois(a) ==
    [a EXCEPT !.view = RemoveAll(RemoveAll(@, a._roi_curves), a._roi_labels),
              !._roi_curves = <<>>,
              !._roi_labels = <<>>]

\* the ROI datasets: a list of rows as np.asarray sees it
NdArray(ndim, rows) == [ndim |-> ndim, rows |-> rows]

\* rois.ndim != 2 or rois.shape[1] != 4
NotBoxes(arr) == arr.ndim # 2 \/ Len(arr.rows) = 0 \/ Len(arr.rows[1]) # 4

\* pg.PlotCurveItem(xs, ys): the outline of the box (y0, y1, x0, x1)
Curve(box) ==
    [xs |-> <<box[3], box[4], box[4], box[3], box[3]>>,
     ys |-> <<box[1], box[1], box[2], box[2], box[1]>>]

\* pg.TextItem(text=str(int(count))) at the centre of the box
Label(box, count) ==
    [text |-> ToString(count), pos |-> <<Rat(box[3] + box[4], 2), Rat(box[1] + box[2], 2)>>]

\* the loop of _draw_rois, from ROI i on (counted from 1)
RECURSIVE DrawLoop(_, _, _, _, _)
DrawLoop(a, rows, cts, have_counts, i) ==
    IF i > Len(rows) THEN a
    ELSE LET a1 == [a EXCEPT !.view = Append(@, Curve(rows[i])),
                             !._roi_curves = Append(@, Curve(rows[i]))]
             a2 == IF have_counts
                   THEN [a1 EXCEPT !.view = Append(@, Label(rows[i], cts[1][i])),
                                   !._roi_labels = Append(@, Label(rows[i], cts[1][i]))]
                   ELSE a1
         IN  DrawLoop(a2, rows, cts, have_counts, i + 1)

\* _draw_rois(rois, counts): <<>> for None, <<value>> otherwise
draw_rois(a, rois, cts) ==
    LET a0 == clear_rois(a)
    IN  IF rois = <<>> THEN a0
        ELSE IF NotBoxes(rois[1]) THEN a0
        ELSE DrawLoop(a0, rois[1].rows, cts,
                      cts # <<>> /\ Len(cts[1]) = Len(rois[1].rows), 1)

\* __init__: autoscale on, the checkbox checked before its signal is
\* connected, no image, no overlay; the levels have not been set
NewApplet ==
    [_autoscale |-> TRUE, checked |-> TRUE, _img_np |-> <<>>, levels |-> <<>>,
     _roi_curves |-> <<>>, _roi_labels |-> <<>>, view |-> <<>>,
     handler |-> "__init__", event |-> <<>>]

InitApplet ==
    /\ AnalysisUnused
    /\ StatsUnused
    /\ chunk = <<>>
    /\ urukul = <<>>
    /\ applet = NewApplet

\* the user clicks the checkbox: toggled(state) runs _on_autoscale_toggled
ToggleAutoscale ==
    /\ applet' = [setChecked(applet, ~applet.checked) EXCEPT !.handler = "toggled"]
    /\ UNCHANGED <<chunk, urukul>>
    /\ UNCHANGED analysis_vars
    /\ UNCHANGED stats_vars

\* the user clicks 'Auto once': _apply_auto_levels_once
AutoOnce ==
    /\ \E r \in {apply_levels_minmax(applet, applet._img_np)} :
          applet' = [(IF r.ok THEN setChecked(r.applet, FALSE) ELSE r.applet)
                        EXCEPT !.handler = "auto_once"]
    /\ UNCHANGED <<chunk, urukul>>
    /\ UNCHANGED analysis_vars
    /\ UNCHANGED stats_vars

\* data_changed(value, ...): value holds the image, the ROI list and the
\* counts, each <<>> when value.get gives None
data_changed(img, rois, cts) ==
    /\ \E a1 \in {IF img = <<>> THEN applet
                  ELSE LET a0 == [applet EXCEPT !._img_np = img]
                       IN  IF a0._autoscale THEN apply_levels_minmax(a0, img).applet ELSE a0} :
          applet' = [draw_rois(a1, rois, cts) EXCEPT
                        !.handler = "data_changed",
                        !.event = <<[img |-> img, rois |-> rois, counts |-> cts]>>]
    /\ UNCHANGED <<chunk, urukul>>
    /\ UNCHANGED analysis_vars
    /\ UNCHANGED stats_vars

\* the images a dataset can hold: None, or up to MaxPixels float pixels
ImageValues ==
    {<<>>} \cup {<<img>> : img \in UNION {[1..k -> PixelFloats] : k \in 1..MaxPixels}}

\* an applet started without the 'rois' and 'counts' datasets
NextApplet ==
    \/ ToggleAutoscale
    \/ AutoOnce
    \/ \E img \in ImageValues : data_changed(img, <<>>, <<>>)

SpecApplet == InitApplet /\ [][NextApplet]_vars

\* ---- image_roi_applet.py: the ROI overlay ----

\* ROI boxes (y0, y1, x0, x1) of the applet
BoxValues == {<<15, 18, 5, 8>>, <<15, 18, 11, 14>>}

\* the values of the 'rois' dataset: None, an empty list, one box given flat,
\* a list of rows of three numbers, or a list of up to MaxBoxes boxes
RoisValues ==
    {<<>>, <<NdArray(1, <<>>)>>, <<NdArray(1, <<15, 18, 5, 8>>)>>,
     <<NdArray(2, << <<15, 18, 5>> >>)>>}
    \cup {<<NdArray(2, rows)>> : rows \in UNION {[1..k -> BoxValues] : k \in 1..MaxBoxes}}

\* the values of the 'counts' dataset: None, or the integer counts 3, 4, ...
\* of up to MaxBoxes ROIs
CountsValues ==
    {<<>>} \cup {<<Array([i \in 1..k |-> 2 + i])>> : k \in 0..MaxBoxes}

\* the images shown with the overlay: None or one frame
OverlayImages == {<<>>, << <<Pix(0), Pix(1)>> >>}

\* an applet started with the 'rois' and 'counts' datasets
NextOverlay ==
    \/ ToggleAutoscale
    \/ AutoOnce
    \/ \E img \in OverlayImages, rois \in RoisValues, cts \in CountsValues :
          data_changed(img, rois, cts)

SpecOverlay == InitApplet /\ [][NextOverlay]_vars

\* ---- two batches that agree on one ROI ----

\* tables with more than one ROI
PairShapes == {<<1, 2>>, <<2, 2>>}

\* a batch is recorded under the default threshold, its 'rois' dataset has the
\* extents of the table
InitRois ==
    /\ shape \in PairShapes
    /\ datasets = [rois |-> RoisOf(shape)]
    /\ channels = get_default_analyses(datasets.rois)
    /\ counts \in UNION {[1..k -> CountTables(shape)] : k \in 1..MaxPairShots}
    /\ pc = "idle"
    /\ n = <<>>
    /\ y = <<>>
    /\ analysis_results = [c \in channels |-> <<>>]
    /\ arg_y = <<>>
    /\ arg_n = <<>>
    /\ arg_w = <<>>
    /\ arg_prior = <<>>
    /\ pooled_ret = <<>>
    /\ avg_ret = <<>>
    /\ QuantileUnused
    /\ OthersUnused
    /\ prev = <<>>

\* After an analysis the next batch has the same counts in ROI r (from 0) and
\* any counts in the other ROIs; the ROI and the y of the first batch are
\* remembered, the channels keep the values of the first analysis.
NextBatch(r) ==
    /\ pc = "done"
    /\ prev = <<>>
    /\ r < shape[2]
    /\ \E b \in [1..Len(counts) -> CountTables(shape)] :
          /\ \A s \in 1..Len(counts), g \in 1..shape[1] : b[s][g][r + 1] = counts[s][g][r + 1]
          /\ counts' = b
    /\ prev' = [roi |-> r, y |-> y]
    /\ pc' = "idle"
    /\ UNCHANGED <<datasets, channels, shape, n, y, analysis_results>>
    /\ UNCHANGED stats_vars
    /\ UNCHANGED other_vars

NextRois == AnalyseShots \/ \E r \in 0..1 : NextBatch(r)

SpecRois == InitRois /\ [][NextRois]_vars

\* ---- every function on caller-owned inputs ----

\* the arguments of the stats functions are set, or a batch is recorded
InitFrame == InitAverage \/ InitThreshold

\* On its arguments the caller calls jeffreys_median_ci, then
\* pooled_posterior_beta, then moment_matched_beta_for_average; on its batch
\* it runs the analysis.
NextFrame ==
    \/ CallJeffreys
    \/ quant_ret # <<>> /\ pooled_ret = <<>> /\ CallPooled
    \/ pooled_ret # <<>> /\ \E d \in BOOLEAN : CallAverage(d)
    \/ arg_y = <<>> /\ AnalyseShots

SpecFrame == InitFrame /\ [][NextFrame]_vars

-----------------------------------------------------------------------------
\* Properties of the shot analysis (specification Spec).

\* the fraction x equals num / den
FracEq(x, num, den) == x[2] # 0 /\ x[1] * den = num * x[2]

Shots == 1..Len(counts)

\* the batch has a count table, and the analysis has run on it
Analysed == pc # "idle" /\ Len(counts) >= 1

\* the 'rois' dataset has the extents of the count table
RoisMatchTable ==
    Len(datasets.rois) = shape[1] /\ Len(datasets.rois[1]) = shape[2]

\* number of shots of cell (g, r) with a count of at least / above the threshold
AtLeastThreshold(g, r) == Cardinality({s \in Shots : counts[s][g][r] >= Threshold})

AboveThreshold(g, r) == Cardinality({s \in Shots : counts[s][g][r] > Threshold})

\* C1: every [shot, group, roi] entry is counted into y iff count >= threshold,
\* so y of a cell is the number of its shots with count >= threshold (a count
\* equal to the threshold is bright).
Claim_C1_BrightIffAtLeastThreshold ==
    Analysed =>
        \A g \in 1..shape[1], r \in 1..shape[2] : y[g][r] = AtLeastThreshold(g, r)

\* C2: n of every cell is the number of shots of the batch, y of every cell is
\* the number of those shots the classifier marks bright, and 0 <= y <= n.
Thm_C2_TrialSummary ==
    Analysed =>
        /\ Len(n) = shape[1] /\ Len(y) = shape[1]
        /\ \A g \in 1..shape[1] :
              /\ Len(n[g]) = shape[2] /\ Len(y[g]) = shape[2]
              /\ \A r \in 1..shape[2] :
                    /\ n[g][r] = Len(counts)
                    /\ y[g][r] = Cardinality({s \in Shots :
                                                Classify(counts[s][g][r], Threshold) = 1})
                    /\ 0 <= y[g][r] /\ y[g][r] <= n[g][r]

\* two shots, and a cell where exactly one of them is bright
Wit_C2_OneOfTwoBright ==
    /\ pc = "done" /\ Len(counts) = 2
    /\ \E g \in 1..shape[1], r \in 1..shape[2] : y[g][r] = 1 /\ n[g][r] = 2

\* the names of the channels of a G x R table
CellName(g, r, suf) == "G" \o ToString(g) \o "R" \o ToString(r) \o suf

PooledName(r, suf) == "GaR" \o ToString(r) \o suf

ChannelsOfTable(G, R) ==
    {CellName(g, r, suf) : g \in 0..(G - 1), r \in 0..(R - 1),
        suf \in {"_p", "_p_upper_err", "_p_lower_err", "_p_avg_err", "_n", "_y"}}
    \cup {PooledName(r, suf) : r \in 0..(R - 1),
        suf \in {"_p", "_p_upper_err", "_p_lower_err", "_p_avg_err"}}

\* the median of the Jeffreys posterior of cell (g, r), counted from 0
CellMedian(g, r) ==
    betaincinv(Rat(2 * AboveThreshold(g + 1, r + 1) + 1, 2),
               Rat(2 * (Len(counts) - AboveThreshold(g + 1, r + 1)) + 1, 2),
               Rat(1, 2))

\* exactly the channels of the count table received one value each, and the
\* values under G{g}R{r} are those of cell (g, r)
EmitsTableChannels ==
    /\ ChannelsOfTable(shape[1], shape[2]) \subseteq DOMAIN analysis_results
    /\ \A c \in DOMAIN analysis_results :
          Len(analysis_results[c]) = IF c \in ChannelsOfTable(shape[1], shape[2]) THEN 1 ELSE 0
    /\ \A g \in 0..(shape[1] - 1), r \in 0..(shape[2] - 1) :
          /\ analysis_results[CellName(g, r, "_n")] = <<Len(counts)>>
          /\ analysis_results[CellName(g, r, "_y")] = <<AboveThreshold(g + 1, r + 1)>>
          /\ analysis_results[CellName(g, r, "_p")] = <<CellMedian(g, r)>>

RoisAnalysed == 0..(Len(datasets.rois[1]) - 1)

\* successes and trials of ROI r (from 0) summed over the groups
RoiSuccesses(r) == ISum([g \in 1..shape[1] |-> y[g][r + 1]])

RoiTrials(r) == ISum([g \in 1..shape[1] |-> n[g][r + 1]])

-----------------------------------------------------------------------------
\* Properties of pooled_posterior_beta (specification SpecPooled).

\* the prior (a0, b0) of the call: the one passed, or Jeffreys (0.5, 0.5)
A0 == IF arg_prior = <<>> THEN <<1, 2>> ELSE arg_prior[1][1]

B0 == IF arg_prior = <<>> THEN <<1, 2>> ELSE arg_prior[1][2]

\* C5: pooled_posterior_beta returns (a0 + sum(y), b0 + sum(n) - sum(y)), with
\* (a0, b0) = (0.5, 0.5) unless a prior is passed; the two add up to
\* a0 + b0 + sum(n).
Thm_C5_PooledParameters ==
    \A i \in 1..Len(pooled_ret) :
        LET r == pooled_ret[i].value
        IN  /\ FracEq(r[1], A0[1] + ISum(arg_y) * A0[2], A0[2])
            /\ FracEq(r[2], B0[1] + (ISum(arg_n) - ISum(arg_y)) * B0[2], B0[2])
            /\ RAdd(r[1], r[2]) = RAdd(RAdd(A0, B0), <<ISum(arg_n), 1>>)

\* a call on two groups with successes and failures
Wit_C5_TwoGroups ==
    /\ Len(pooled_ret) = 1 /\ Len(arg_y) = 2
    /\ ISum(arg_y) > 0 /\ ISum(arg_n) > ISum(arg_y)

\* C6: two calls with the same prior on lists with the same totals sum(y) and
\* sum(n) return the same pair, however the totals are split into groups.
Thm_C6_PooledDependsOnTotals ==
    Len(pooled_ret) = 2 => pooled_ret[1].value = pooled_ret[2].value

\* the second call ran on a list with another number of groups
Wit_C6_Regrouped ==
    /\ Len(pooled_ret) = 2
    /\ pooled_ret[1].groups # pooled_ret[2].groups

-----------------------------------------------------------------------------
\* Properties of moment_matched_beta_for_average (specification SpecAverage).

Groups == 1..Len(arg_y)

\* posterior mean and variance of group g, from the arguments of the call
RefA(g) == RAdd(<<arg_y[g], 1>>, A0)

RefB(g) == RAdd(<<arg_n[g] - arg_y[g], 1>>, B0)

RefMu(g) == RDiv(RefA(g), RAdd(RefA(g), RefB(g)))

RefVar(g) ==
    RDiv(RMul(RefA(g), RefB(g)),
         RMul(RMul(RAdd(RefA(g), RefB(g)), RAdd(RefA(g), RefB(g))),
              RAdd(RAdd(RefA(g), RefB(g)), <<1, 1>>)))

Sq(x) == RMul(x, x)

\* the weights of the call are numbers: none passed, or their sum is not 0
WeightsDefined == arg_w = <<>> \/ ISum(arg_w[1]) # 0

BothVariants == DOMAIN avg_ret = BOOLEAN /\ WeightsDefined

\* C9 as stated: whenever two groups have different posterior means, the
\* drift-aware variance is strictly greater than the other one, and the two
\* means are equal.
Claim_C9_DriftStrictlyWider ==
    (BothVariants /\ \E g, h \in Groups : RefMu(g) # RefMu(h)) =>
        /\ RLt(avg_ret[FALSE].v, avg_ret[TRUE].v)
        /\ avg_ret[TRUE].m = avg_ret[FALSE].m

\* two groups with non-zero weight have different posterior means
WeightedMeansDiffer ==
    \E g, h \in Groups :
        /\ avg_ret[FALSE].w[g][1] > 0 /\ avg_ret[FALSE].w[h][1] > 0
        /\ RefMu(g) # RefMu(h)

\* C9 amended: whenever two groups with non-zero weight have different
\* posterior means, the drift-aware variance is strictly greater than the
\* other one, and otherwise the two variances are equal; the two means are
\* always equal.
Thm_C9_DriftWiderOnWeightedGroups ==
    BothVariants =>
        /\ IF WeightedMeansDiffer
           THEN RLt(avg_ret[FALSE].v, avg_ret[TRUE].v)
           ELSE avg_ret[FALSE].v = avg_ret[TRUE].v
        /\ avg_ret[TRUE].m = avg_ret[FALSE].m

\* both variants ran on two groups with different means and weights (1, 2)
Wit_C9_DifferentMeans ==
    /\ BothVariants /\ Len(arg_y) = 2
    /\ arg_w = << <<1, 2>> >>
    /\ RefMu(1) # RefMu(2)

\* all groups of the call have the same (y, n)
IdenticalGroups == \A g \in Groups : arg_y[g] = arg_y[1] /\ arg_n[g] = arg_n[1]

\* C10 as stated: for G >= 1 groups with the same (y, n), not drift-aware, the
\* call returns m = a / (a + b) and v = ab / ((a + b)^2 (a + b + 1)),
\* whatever G is.
Claim_C10_IdenticalGroupsKeepVariance ==
    (FALSE \in DOMAIN avg_ret /\ IdenticalGroups /\ arg_w = <<>>) =>
        /\ avg_ret[FALSE].m = RefMu(1)
        /\ avg_ret[FALSE].v = RefVar(1)

\* C10 amended: for G >= 1 groups with the same (y, n), not drift-aware, the
\* call returns m = a / (a + b) whatever G is, and
\* v = (sum_g w_g^2) ab / ((a + b)^2 (a + b + 1)), which is 1 / G of the
\* single-group variance under the default weights.
Thm_C10_IdenticalGroupsShrinkVariance ==
    (FALSE \in DOMAIN avg_ret /\ IdenticalGroups /\ WeightsDefined) =>
        LET r == avg_ret[FALSE]
        IN  /\ r.m = RefMu(1)
            /\ r.v = RMul(RSum([g \in Groups |-> Sq(r.w[g])]), RefVar(1))
            /\ arg_w = <<>> => RMul(<<Len(arg_y), 1>>, r.v) = RefVar(1)

\* a call without weights on two identical groups
Wit_C10_TwoIdenticalGroups ==
    /\ FALSE \in DOMAIN avg_ret /\ IdenticalGroups
    /\ Len(arg_y) = 2 /\ arg_w = <<>> /\ arg_y[1] = 1 /\ arg_n[1] = 2

\* the call's arguments are valid: 0 <= y_g <= n_g in every group, and the
\* weights (none of them negative) have a positive sum
ValidAverageCall ==
    /\ \A g \in Groups : 0 <= arg_y[g] /\ arg_y[g] <= arg_n[g]
    /\ WeightsDefined

-----------------------------------------------------------------------------
\* Properties of jeffreys_median_ci and beta_quartiles (specification
\* SpecQuantile).  A quantile is the term of its Beta parameters and level.

\* t is a quantile of a Beta distribution with positive parameters, at a level
\* in [0, 1]: a number in [0, 1]
ProperQuantile(t) ==
    /\ t # QNaN
    /\ RLt(<<0, 1>>, t.a) /\ RLt(<<0, 1>>, t.b)
    /\ RLe(<<0, 1>>, t.q) /\ RLe(t.q, <<1, 1>>)

\* s and t are quantiles of one Beta distribution, the level of s not above
\* the level of t: s <= t, the quantile function being non-decreasing
QLe(s, t) ==
    /\ ProperQuantile(s) /\ ProperQuantile(t)
    /\ s.a = t.a /\ s.b = t.b
    /\ RLe(s.q, t.q)

JeffreysReturned == quant_ret # <<>> /\ quant_ret.fn = "jeffreys_median_ci"

QuartilesReturned == quant_ret # <<>> /\ quant_ret.fn = "beta_quartiles"

\* the level of the jeffreys_median_ci call
Level == IF arg_level = <<>> THEN <<6827, 10000>> ELSE arg_level[1]

\* C12: for n >= 0, 0 <= y <= n and a level in (0, 1), jeffreys_median_ci
\* returns 0 <= lower <= median <= upper <= 1, the median being the quantile
\* at 1/2; beta_quartiles returns quartiles in the same order for positive
\* parameters.
Thm_C12_IntervalOrdering ==
    /\ JeffreysReturned =>
          \A g \in 1..Len(arg_y) :
              (0 <= arg_y[g] /\ arg_y[g] <= arg_n[g]
                    /\ RLt(<<0, 1>>, Level) /\ RLt(Level, <<1, 1>>)) =>
                  /\ QLe(quant_ret.lo[g], quant_ret.median[g])
                  /\ QLe(quant_ret.median[g], quant_ret.hi[g])
                  /\ quant_ret.median[g].q = <<1, 2>>
    /\ (QuartilesReturned /\ RLt(<<0, 1>>, quant_ret.a) /\ RLt(<<0, 1>>, quant_ret.b)) =>
          /\ QLe(quant_ret.value[1], quant_ret.value[2])
          /\ QLe(quant_ret.value[2], quant_ret.value[3])

\* a call on two valid elements, one of them without trials, at a given level
Wit_C12_TwoElements ==
    /\ JeffreysReturned /\ Len(arg_y) = 2 /\ arg_level # <<>>
    /\ arg_y[1] = 1 /\ arg_n[1] = 2 /\ arg_y[2] = 0 /\ arg_n[2] = 0
    /\ quant_ret.lo[1] # quant_ret.hi[1]

\* C13: with n = 0 jeffreys_median_ci uses the pure prior Beta(0.5, 0.5),
\* whatever y is: the median is its quantile at 1/2 (which is 0.5) and the
\* interval is made of its quantiles at (1 -+ level)/2.
Claim_C13_NoTrialsGivesPrior ==
    JeffreysReturned =>
        \A g \in 1..Len(arg_y) :
            arg_n[g] = 0 =>
                /\ quant_ret.median[g] = [a |-> <<1, 2>>, b |-> <<1, 2>>, q |-> <<1, 2>>]
                /\ quant_ret.lo[g] = [a |-> <<1, 2>>, b |-> <<1, 2>>,
                                      q |-> RDiv(RSub(<<1, 1>>, Level), <<2, 1>>)]
                /\ quant_ret.hi[g] = [a |-> <<1, 2>>, b |-> <<1, 2>>,
                                      q |-> RDiv(RAdd(<<1, 1>>, Level), <<2, 1>>)]

\* C19: a quantile function handed a non-positive Beta parameter
\* (jeffreys_median_ci with y > n, beta_quartiles with a <= 0 or b <= 0) fails
\* with a NumericDomainError: it does not return, and no NaN is returned.
Claim_C19_DomainErrorRaised ==
    /\ JeffreysReturned =>
          \A g \in 1..Len(arg_y) :
              arg_y[g] <= arg_n[g] /\ quant_ret.median[g] # QNaN
    /\ QuartilesReturned =>
          /\ RLt(<<0, 1>>, quant_ret.a) /\ RLt(<<0, 1>>, quant_ret.b)
          /\ quant_ret.value[2] # QNaN

-----------------------------------------------------------------------------
\* Further properties of the shot analysis (specification Spec).

\* the groups the analysis loops over, counted from 0
GroupsAnalysed == 0..(Len(datasets.rois) - 1)

\* The record emitted under the channel prefix k: p is a median (a quantile at
\* 1/2), upper_err = upper - p and lower_err = p - lower with
\* lower <= p <= upper quantiles of the same distribution, hence both errors
\* non-negative, and avg_err = (upper - lower)/2, which is
\* (upper_err + lower_err)/2.
AsymmetricRecord(k) ==
    LET p     == analysis_results[k \o "_p"][1]
        upper == analysis_results[k \o "_p_upper_err"][1]
        lower == analysis_results[k \o "_p_lower_err"][1]
        avg   == analysis_results[k \o "_p_avg_err"][1]
    IN  /\ ProperQuantile(p) /\ p.q = <<1, 2>>
        /\ upper.subtrahend = p /\ QLe(p, upper.minuend)
        /\ lower.minuend = p /\ QLe(lower.subtrahend, p)
        /\ avg = [half_of |-> [minuend |-> upper.minuend,
                               subtrahend |-> lower.subtrahend]]

\* C14: for every cell and every pooled ROI the emitted errors are
\* upper - median, median - lower and (upper - lower)/2, none negative, the
\* emitted p is the posterior median, and the cell's p is the median of
\* Beta(y + 0.5, n - y + 0.5).
Thm_C14_AsymmetricErrors ==
    (Analysed /\ pc = "done") =>
        /\ \A g \in GroupsAnalysed, r \in RoisAnalysed :
              /\ AsymmetricRecord(CellName(g, r, ""))
              /\ analysis_results[CellName(g, r, "_p")][1] = CellMedian(g, r)
        /\ \A r \in RoisAnalysed : AsymmetricRecord(PooledName(r, ""))

\* a cell without a bright shot, whose two errors are different terms
Wit_C14_SkewedCell ==
    /\ Analysed /\ pc = "done"
    /\ y[1][1] = 0
    /\ analysis_results["G0R0_p_upper_err"] # analysis_results["G0R0_p_lower_err"]

-----------------------------------------------------------------------------
\* Properties of the threshold (specification SpecThreshold).

\* the batch was analysed, the threshold set, and the batch analysed again
Reanalysed == prev # <<>> /\ pc = "done"

\* C15: for a fixed count table and thresholds t1 <= t2, y computed with t2 is
\* at most y computed with t1 in every cell, and n is the same for both.
Thm_C15_ThresholdMonotone ==
    Reanalysed =>
        /\ n = prev.n
        /\ \A g \in 1..shape[1], r \in 1..shape[2] :
              /\ prev.threshold <= Threshold => y[g][r] <= prev.y[g][r]
              /\ Threshold <= prev.threshold => prev.y[g][r] <= y[g][r]

\* the threshold was raised and a cell lost a bright shot
Wit_C15_RaisedThreshold ==
    /\ Reanalysed /\ prev.threshold < Threshold
    /\ \E g \in 1..shape[1], r \in 1..shape[2] : y[g][r] < prev.y[g][r]

-----------------------------------------------------------------------------
\* Failure behaviour of the shot analysis (specification Spec) and of
\* moment_matched_beta_for_average (specification SpecAverage).

\* no channel holds a value
NothingEmitted == \A c \in DOMAIN analysis_results : analysis_results[c] = <<>>

\* every channel holds exactly one value
OneValueEach == \A c \in DOMAIN analysis_results : Len(analysis_results[c]) = 1

\* the prior-only median: the quantile at 1/2 of Beta(0.5, 0.5), which is 0.5
PriorMedian == [a |-> <<1, 2>>, b |-> <<1, 2>>, q |-> <<1, 2>>]

\* C16: on a batch of zero shots the analysis completes without raising, n and
\* y are 0 in every cell, and every cell emits the prior-only median with
\* n = 0, y = 0.
Claim_C16_EmptyBatchTolerated ==
    (pc # "idle" /\ Len(counts) = 0) =>
        /\ pc = "done"
        /\ \A g \in GroupsAnalysed, r \in RoisAnalysed :
              /\ n[g + 1][r + 1] = 0 /\ y[g + 1][r + 1] = 0
              /\ analysis_results[CellName(g, r, "_p")] = <<PriorMedian>>
              /\ analysis_results[CellName(g, r, "_n")] = <<0>>
              /\ analysis_results[CellName(g, r, "_y")] = <<0>>

\* C17: when the extents of the count table and of the 'rois' dataset differ,
\* in either direction, the analysis fails with a ShapeMismatch error before
\* anything is emitted; never a subset of the cells is analysed.
Claim_C17_ShapeMismatchRaised ==
    (Analysed /\ ~RoisMatchTable) => (pc = "ShapeMismatch" /\ NothingEmitted)

\* C20: an invocation that fails has emitted nothing, one that succeeds has
\* emitted exactly one value to every channel.
Claim_C20_AllOrNothing ==
    pc # "idle" => IF pc = "done" THEN OneValueEach ELSE NothingEmitted

\* C18: moment_matched_beta_for_average fails with an InvalidWeights error on
\* a wrong-length, non-finite or all-zero weight list: it returns nothing
\* computed from such weights, in particular no NaN.
Claim_C18_InvalidWeightsRaised ==
    \A d \in DOMAIN avg_ret :
        /\ arg_w # <<>> => (Len(arg_w[1]) = Len(arg_y) /\ ISum(arg_w[1]) # 0)
        /\ ~IsNaN(avg_ret[d].m) /\ ~IsNaN(avg_ret[d].v)
        /\ ~IsNaN(avg_ret[d].alpha_star) /\ ~IsNaN(avg_ret[d].beta_star)

-----------------------------------------------------------------------------
\* Frame of the functions (specification SpecFrame).

-----------------------------------------------------------------------------
\* The pooling axis (specification SpecRois).

\* two batches that agree on ROI prev.roi were analysed one after the other
PairAnalysed == prev # <<>> /\ pc = "done"

\* C22: two count tables that agree on every entry of ROI r give the same
\* GaR{r} values, whatever their other ROIs hold, and the values pooled are
\* those of all the groups of ROI r.
Thm_C22_PooledPerRoi ==
    PairAnalysed =>
        /\ \A suf \in {"_p", "_p_upper_err", "_p_lower_err", "_p_avg_err"} :
              /\ Len(analysis_results[PooledName(prev.roi, suf)]) = 2
              /\ analysis_results[PooledName(prev.roi, suf)][1]
                    = analysis_results[PooledName(prev.roi, suf)][2]
        /\ analysis_results[PooledName(prev.roi, "_p")][2]
              = [a |-> Rat(2 * RoiSuccesses(prev.roi) + 1, 2),
                 b |-> Rat(2 * (RoiTrials(prev.roi) - RoiSuccesses(prev.roi)) + 1, 2),
                 q |-> <<1, 2>>]

\* two groups, and the second batch differs from the first in the other ROI
Wit_C22_OtherRoiDiffers ==
    /\ PairAnalysed /\ shape = <<2, 2>>
    /\ prev.roi = 0
    /\ y[1][2] # prev.y[1][2] /\ y[2][2] = prev.y[2][2]

-----------------------------------------------------------------------------
\* The raw counts (specification SpecReadout).

\* the sum of the pixels in rows y0..y1-1 and columns x0..x1-1 of the image
BoxSum(box) ==
    LET img == datasets.last_image
        cells == {rc \in (1..ImageSide) \X (1..ImageSide) :
                    /\ box[1] < rc[1] /\ rc[1] <= box[2]
                    /\ box[3] < rc[2] /\ rc[2] <= box[4]}
    IN  SumOver([rc \in cells |-> img[rc[1]][rc[2]]], cells)

\* C23: after run_once the count pushed for every ROI box is the sum of the
\* pixels of the box, a non-negative integer, for sums of any size; run_once
\* does not fail on a large sum.
Claim_C23_CountIsPixelSum ==
    /\ pc # "OverflowError"
    /\ \A k \in 1..Len(counts) : \A i \in 1..Len(counts[k]) :
          /\ counts[k][i] = BoxSum(datasets.rois[i])
          /\ counts[k][i] >= 0

-----------------------------------------------------------------------------
\* The Beta parameters handed to the quantile function (specification Spec).

\* a quantile term of a Beta whose two parameters are at least 1/2
HalfOrMore(t) == RLe(Rat(1, 2), t.a) /\ RLe(Rat(1, 2), t.b)

\* C24: whenever a non-empty batch has been analysed, the parameters
\* a = y + 1/2 and b = n - y + 1/2 of every cell of the trial summary are at
\* least 1/2, and every median emitted for a cell or for a pooled ROI is the
\* quantile of a Beta with both parameters at least 1/2 (never nan).
Thm_C24_ParametersAtLeastHalf ==
    Analysed =>
        /\ \A g \in 1..Len(y) : \A r \in 1..Len(y[g]) :
              /\ RLe(Rat(1, 2), RAdd(FromInt(y[g][r]), Rat(1, 2)))
              /\ RLe(Rat(1, 2), RAdd(FromInt(n[g][r] - y[g][r]), Rat(1, 2)))
        /\ \A g \in 0..(MaxGroups - 1), r \in 0..(MaxGroups - 1) :
              \A c \in {CellName(g, r, "_p")} \cap DOMAIN analysis_results :
                 \A i \in 1..Len(analysis_results[c]) : HalfOrMore(analysis_results[c][i])
        /\ \A r \in 0..(MaxGroups - 1) :
              \A c \in {PooledName(r, "_p")} \cap DOMAIN analysis_results :
                 \A i \in 1..Len(analysis_results[c]) : HalfOrMore(analysis_results[c][i])

\* a summary with a cell of no success (a = 1/2) and a cell of no failure
\* (b = 1/2), analysed to the end
Wit_C24_ExtremeCells ==
    /\ Analysed /\ pc = "done" /\ RoisMatchTable
    /\ shape = <<1, 2>>
    /\ y[1][1] = 0 /\ y[1][2] = n[1][2] /\ n[1][2] = 2
    /\ analysis_results["G0R0_p"][1].a = Rat(1, 2)
    /\ analysis_results["G0R1_p"][1].b = Rat(1, 2)
    /\ analysis_results["GaR0_p"][1].a = Rat(1, 2)

-----------------------------------------------------------------------------
\* Declared and emitted channels (specification SpecDeclare).

\* C25: however the declaration of the channels, the writes to 'rois' and the
\* analysis are interleaved, an analysis of a non-empty batch ends without an
\* error, having pushed only to declared channels and exactly one value to
\* every declared channel.
Claim_C25_DeclaredChannelsPushedOnce ==
    Analysed =>
        /\ pc = "done"
        /\ DOMAIN analysis_results = channels
        /\ \A c \in channels : Len(analysis_results[c]) = 1

-----------------------------------------------------------------------------
\* The scan of a ShotChunk (specification SpecChunk).

\* the scan is configured with exactly N points and no repeats
ConfiguredFor(N) ==
    /\ chunk.spec.gen.num_points = N
    /\ chunk.spec.opts.num_repeats = 1
    /\ chunk.spec.opts.num_repeats_per_point = 1

\* the batch holds N shots, one for each index 0..N-1
OneShotPerIndex(N) ==
    /\ Len(chunk.batch) = N
    /\ \A i \in 0..(N - 1) : Cardinality({k \in 1..Len(chunk.batch) : chunk.batch[k] = i}) = 1

\* C26: whenever a ShotChunk has run, after any sequence of parameter changes
\* and calls of host_setup, device_setup and run_once, the scan is configured
\* with exactly N points, N >= 1 the current value of shots_per_chunk, and the
\* batch holds one shot for each index 0..N-1.
Claim_C26_BatchOfCurrentN ==
    chunk.stage \in {"ran", "ran_stale"} =>
        /\ chunk.shots_per_chunk >= 1
        /\ ConfiguredFor(chunk.shots_per_chunk)
        /\ OneShotPerIndex(chunk.shots_per_chunk)

\* C26 (amended): the same when host_setup or device_setup was called after
\* the last change of shots_per_chunk and before run_once; and after every
\* setup the scan is configured for the current N.
Thm_C26_BatchOfNAtSetup ==
    /\ chunk.stage \in {"set_up", "ran"} =>
          /\ chunk.shots_per_chunk >= 1
          /\ ConfiguredFor(chunk.shots_per_chunk)
    /\ chunk.stage = "ran" => OneShotPerIndex(chunk.shots_per_chunk)

\* the cold-atom-sim chunk ran three shots in a shuffled order
Wit_C26_ThreeShotsShuffled ==
    /\ chunk.stage = "ran"
    /\ chunk.variant = "cold-atom-sim"
    /\ chunk.shots_per_chunk = 3
    /\ chunk.batch = <<2, 0, 1>>

-----------------------------------------------------------------------------
\* The playback of UrukulToneRAM (specification SpecUrukul).

\* SQUARE (profile 1, 2 us), OFF (profile 0, 1 us), BH (profile 2, 8 us),
\* OFF (profile 0, 2 us)
PlaybackOrder == << <<1, 2>>, <<0, 1>>, <<2, 8>>, <<0, 2>> >>

\* the playback order ten times over
TenPlaybacks == [k \in 1..40 |-> PlaybackOrder[((k - 1) % 4) + 1]]

\* C27: when run() has ended, the RAM and the three profiles are programmed
\* and the profiles played contain, ten times in a row, the order
\* SQUARE (2 us), OFF (1 us), BH (8 us), OFF (2 us).
Claim_C27_TenPlaybacks ==
    urukul.pc = "done" =>
        /\ urukul.dds_ram_len = urukul.ram_amp_len
        /\ DOMAIN urukul.profiles = {0, 1, 2}
        /\ \E off \in 0..Len(urukul.played) :
              /\ off + 40 <= Len(urukul.played)
              /\ \A k \in 1..40 : urukul.played[off + k] = TenPlaybacks[k]

-----------------------------------------------------------------------------
\* Autoscale and levels of the image applet (specification SpecApplet).

\* an image is present and its min and max are finite with min < max
CanApplyLevels(img) ==
    /\ img # <<>>
    /\ IsFinite(NanMin(img[1])) /\ IsFinite(NanMax(img[1]))
    /\ NanMin(img[1]) # NanMax(img[1])

\* the levels, once set, are a finite pair lo < hi
LevelsProper ==
    applet.levels # <<>> =>
        /\ IsFinite(applet.levels[1]) /\ IsFinite(applet.levels[2])
        /\ applet.levels[1][2] < applet.levels[2][2]

\* what a click on 'Auto once' does: levels applied and autoscale off, or
\* nothing
AutoOnceStep ==
    applet'.handler = "auto_once" =>
        IF CanApplyLevels(applet._img_np)
        THEN /\ applet'.levels = <<NanMin(applet._img_np[1]), NanMax(applet._img_np[1])>>
             /\ ~applet'._autoscale
             /\ ~applet'.checked
        ELSE /\ applet'.levels = applet.levels
             /\ applet'._autoscale = applet._autoscale
             /\ applet'.checked = applet.checked

\* C28: after any sequence of checkbox toggles, 'Auto once' clicks and
\* data_changed events the autoscale flag equals the checkbox state and the
\* levels are a finite pair lo < hi if they were set; a click on 'Auto once'
\* that applies levels leaves autoscale off, and a click that cannot apply
\* them changes neither the levels nor the autoscale state.
Thm_C28_AutoscaleFollowsCheckbox ==
    /\ [](applet._autoscale = applet.checked)
    /\ []LevelsProper
    /\ [][AutoOnceStep]_vars

\* 'Auto once' was clicked on an image with pixels 1 and 0 while autoscale
\* was on: the levels are (0, 1) and autoscale is off
Wit_C28_AutoOnceApplied ==
    /\ applet.handler = "auto_once"
    /\ applet._img_np = << <<Pix(1), Pix(0)>> >>
    /\ applet.levels = <<Pix(0), Pix(1)>>
    /\ ~applet._autoscale

-----------------------------------------------------------------------------
\* The ROI overlay of the image applet (specification SpecOverlay).

\* the boxes of the ROI list of the most recent event: none when the list is
\* absent or is not an N x 4 array
BoxesOfEvent ==
    LET rois == applet.event[1].rois
    IN  IF rois = <<>> THEN <<>>
        ELSE IF rois[1].ndim # 2 THEN <<>>
        ELSE IF \E i \in 1..Len(rois[1].rows) : Len(rois[1].rows[i]) # 4 THEN <<>>
        ELSE rois[1].rows

\* the counts of the most recent event have the length of its ROI list
CountsMatchEvent ==
    /\ applet.event[1].counts # <<>>
    /\ Len(applet.event[1].counts[1]) = Len(BoxesOfEvent)

\* the items of the view that are outlines, and those that are labels
OutlinesShown == SelectSeq(applet.view, LAMBDA it : "xs" \in DOMAIN it)

LabelsShown == SelectSeq(applet.view, LAMBDA it : "text" \in DOMAIN it)

\* the corners of the outline of a box (y0, y1, x0, x1)
OutlineOf(box) ==
    [xs |-> <<box[3], box[4], box[4], box[3], box[3]>>,
     ys |-> <<box[1], box[1], box[2], box[2], box[1]>>]

\* C29: after any sequence of data_changed events the outlines in the view
\* are exactly those of the boxes of the most recent event's ROI list, in
\* order, none when the list is absent or not N x 4; there is one count label
\* per ROI when the counts have the length of the ROI list and none otherwise;
\* nothing of an earlier event is left.
Thm_C29_OverlayOfLastEvent ==
    applet.event # <<>> =>
        /\ OutlinesShown = [i \in 1..Len(BoxesOfEvent) |-> OutlineOf(BoxesOfEvent[i])]
        /\ Len(LabelsShown) = IF CountsMatchEvent THEN Len(BoxesOfEvent) ELSE 0
        /\ \A i \in 1..Len(LabelsShown) :
              LabelsShown[i].text = ToString(applet.event[1].counts[1][i])
        /\ Len(applet.view) = Len(OutlinesShown) + Len(LabelsShown)

\* the latest event has one box and two counts: one outline and no label is
\* in the view
Wit_C29_ShorterListReplaces ==
    /\ applet.event # <<>>
    /\ applet.event[1].rois = <<NdArray(2, << <<15, 18, 11, 14>> >>)>>
    /\ applet.event[1].counts = << <<3, 4>> >>
    /\ Len(applet.view) = 1
    /\ applet._roi_labels = <<>>

====
